---- MODULE Spec2Model ----
(***************************************************************************)
(* SecureGit-Hook, check_secrets.py: configuration loading (load_config)   *)
(* and the pre-commit run (main, check_prohibited_files, scan_file).       *)
(*                                                                         *)
(* Texts (paths, file names, extensions, regular expressions, words of a   *)
(* file) are sequences of chunks: a chunk is a run of characters that no   *)
(* operation of the program cuts, so that endswith, basename, split and    *)
(* the suffix stripping of configuration keys are computed on them.        *)
(***************************************************************************)
EXTENDS Integers, Sequences, FiniteSets, TLC

\* ------------------------------------------------------------------ bounds
MaxFiles == 2
MaxRunDocKeys == 1
MaxDocKeys == 3
MaxCalls == 2

\* ------------------------------------------------------------ text helpers
EndsWith(s, suf) ==
  /\ Len(suf) <= Len(s)
  /\ SubSeq(s, Len(s) - Len(suf) + 1, Len(s)) = suf

StartsWith(s, pre) ==
  /\ Len(pre) <= Len(s)
  /\ SubSeq(s, 1, Len(pre)) = pre

\* a basename that forgets to strip the directory
BasenameWholePath(p) == p

\* os.path.basename: what follows the last "/"
RECURSIVE Basename(_)
Basename(p) ==
  IF \E i \in 1..Len(p) : p[i] = "/"
  THEN Basename(Tail(p))
  ELSE p

InList(x, l) == \E i \in 1..Len(l) : l[i] = x

\* [item for item in l if item not in removed]
RECURSIVE ListWithout(_, _)
ListWithout(l, removed) ==
  IF l = <<>> THEN <<>>
  ELSE IF InList(Head(l), removed)
       THEN ListWithout(Tail(l), removed)
       ELSE <<Head(l)>> \o ListWithout(Tail(l), removed)

\* ------------------------------------------------------------- JSON values
\* A value of the configuration: t is its Python type.
BoolV(b) == [t |-> "bool", b |-> b, l |-> <<>>]
ListV(l) == [t |-> "list", b |-> FALSE, l |-> l]
\* a str where a list is expected (s is a text)
StrV(s)  == [t |-> "str", b |-> FALSE, l |-> <<s>>]
\* {"files": [...]}: an object with a files list
ObjV(fs) == [t |-> "dict", b |-> FALSE, l |-> fs]

IsList(v) == v.t = "list"

\* ------------------------------------------------- names, files, patterns
K_enabled             == <<"enabled">>
K_valid_extensions    == <<"valid_extensions">>
K_prohibited_files    == <<"prohibited_files">>
K_prohibited_patterns == <<"prohibited_patterns">>
K_patterns            == <<"patterns">>
K_allowlist           == <<"allowlist">>

ExcludeSuffix == <<"_exclude">>
ExpandSuffix  == <<"_expand">>

ListKeys == {K_valid_extensions, K_prohibited_files, K_prohibited_patterns, K_patterns}

\* the working tree the hook runs in
F_id_rsa == <<"d", "/", "id_rsa">>
F_pem    == <<"k", ".pem">>
F_a      == <<"a", ".py">>
F_b      == <<"b", ".py">>
F_c      == <<"c", ".rb">>

Tracked == {F_id_rsa, F_pem, F_a, F_b, F_c}

\* regular expressions (source text)
RE_PEM    == <<".*\\.pem$">>
RE_SECRET == <<"SECRET\\s*=\\s*[\"'].*[\"']">>
RE_CRED   == <<"(access|secret|api|auth|client|token)[-._]?(key|secret|token|id|password)[\\s=:]+[\"']?[A-Za-z0-9+/]{8,}[\"']?">>
RE_D      == <<"d/.*">>
RE_BAD    == <<"(">>

\* words of file contents
NL        == "\n"
W_secret  == "SECRET = 'hunter2'"
W_cred    == "api_key=abcdefgh"
W_plain   == "x = 1"

\* readable files and their text; F_b cannot be decoded as UTF-8
Readable(f) == f # F_b

FileText(f) ==
  IF f = F_a THEN <<W_secret, W_cred, NL, W_plain, NL, W_secret>>
  ELSE IF f = F_c THEN <<W_plain, NL, W_secret>>
  ELSE IF f = F_id_rsa THEN <<W_secret>>
  ELSE IF f = F_pem THEN <<W_cred, W_secret>>
  ELSE <<>>

\* -------------------------------------------------------------- module re
\* re.compile of the expressions above: ok = FALSE is re.error.  kind says
\* what the expression matches, groups how many capture groups it has.
Compile(p) ==
  IF p = RE_BAD THEN [ok |-> FALSE, kind |-> "none", arg |-> <<>>, groups |-> 0]
  ELSE IF p = RE_PEM THEN [ok |-> TRUE, kind |-> "suffix", arg |-> <<".pem">>, groups |-> 0]
  ELSE IF p = RE_D THEN [ok |-> TRUE, kind |-> "prefix", arg |-> <<"d", "/">>, groups |-> 0]
  ELSE IF p = RE_SECRET THEN [ok |-> TRUE, kind |-> "word", arg |-> <<W_secret>>, groups |-> 0]
  ELSE IF p = RE_CRED THEN [ok |-> TRUE, kind |-> "word", arg |-> <<W_cred>>, groups |-> 2]
  ELSE [ok |-> TRUE, kind |-> "none", arg |-> <<>>, groups |-> 0]

\* re.match(pattern, text): anchored at the start of text
re_match(p, text) ==
  LET c == Compile(p) IN
  IF c.kind = "suffix" THEN EndsWith(text, c.arg)
  ELSE IF c.kind = "prefix" THEN StartsWith(text, c.arg)
  ELSE IF c.kind = "word" THEN StartsWith(text, c.arg)
  ELSE FALSE

\* one element of re.findall's result: a str, or a tuple of the groups when
\* the expression has more than one group
GroupsOf(p, w) ==
  IF p = RE_CRED /\ w = W_cred THEN <<"api", "key">> ELSE <<>>

MatchOf(p, w) ==
  IF Compile(p).groups > 1
  THEN [isTuple |-> TRUE, str |-> "", tup |-> GroupsOf(p, w)]
  ELSE [isTuple |-> FALSE, str |-> w, tup |-> <<>>]

\* re.findall(pattern, line): every non-overlapping match, left to right
RECURSIVE re_findall(_, _)
re_findall(p, line) ==
  IF line = <<>> THEN <<>>
  ELSE LET c == Compile(p) IN
       IF c.kind = "word" /\ <<Head(line)>> = c.arg
       THEN <<MatchOf(p, Head(line))>> \o re_findall(p, Tail(line))
       ELSE re_findall(p, Tail(line))

\* content.split("\n")
RECURSIVE SplitLines(_, _)
SplitLines(text, cur) ==
  IF text = <<>> THEN <<cur>>
  ELSE IF Head(text) = NL
       THEN <<cur>> \o SplitLines(Tail(text), <<>>)
       ELSE SplitLines(Tail(text), Append(cur, Head(text)))

\* ---------------------------------------------------------- DEFAULT_CONFIG
ConfigKeys == {K_enabled} \cup ListKeys

DefaultConfig ==
  [k \in ConfigKeys |->
     IF k = K_enabled THEN BoolV(TRUE)
     ELSE IF k = K_valid_extensions THEN ListV(<< <<".py">>, <<".rb">> >>)
     ELSE IF k = K_prohibited_files THEN ListV(<< <<"id_rsa">> >>)
     ELSE IF k = K_prohibited_patterns THEN ListV(<< RE_PEM >>)
     ELSE ListV(<< RE_SECRET, RE_CRED >>)]

\* ------------------------------------------------------------- load_config
LocalPath  == <<"securegit.json">>
GlobalPath == <<"~/.securegit.json">>
config_paths == <<LocalPath, GlobalPath>>

Msg(m, path, n) == [msg |-> m, path |-> path, n |-> n]

IsExcludeKey(key) == EndsWith(key, ExcludeSuffix)
IsExpandKey(key)  == EndsWith(key, ExpandSuffix)
\* key[:-8], key[:-7]
BaseKey(key) == SubSeq(key, 1, Len(key) - 1)

\* The state of one call: config is the dict under construction, shared the
\* keys whose list object is still the one DEFAULT_CONFIG holds (config is a
\* shallow copy), dflt the module-level DEFAULT_CONFIG, out what was printed.
RECURSIVE DirectPass(_, _, _)
DirectPass(st, doc, i) ==
  IF i > Len(doc) THEN st
  ELSE LET key == doc[i][1]
           value == doc[i][2]
       IN DirectPass(
            IF ~IsExcludeKey(key) /\ ~IsExpandKey(key) /\ key \in DOMAIN st.config
            THEN [st EXCEPT !.config[key] = value, !.shared = @ \ {key}]
            ELSE st,
            doc, i + 1)

RECURSIVE ExcludePass(_, _, _)
ExcludePass(st, doc, i) ==
  IF i > Len(doc) THEN st
  ELSE LET key == doc[i][1]
           value == doc[i][2]
           base_key == BaseKey(key)
       IN ExcludePass(
            IF /\ IsExcludeKey(key) /\ IsList(value)
               /\ base_key \in DOMAIN st.config
               /\ IsList(st.config[base_key])
            THEN LET kept == ListWithout(st.config[base_key].l, value.l)
                     removed == Len(st.config[base_key].l) - Len(kept)
                 IN [st EXCEPT !.config[base_key] = ListV(kept),
                               !.shared = @ \ {base_key},
                               !.out = Append(@, Msg("excluded", base_key, removed))]
            ELSE st,
            doc, i + 1)

RECURSIVE ExpandPass(_, _, _)
ExpandPass(st, doc, i) ==
  IF i > Len(doc) THEN st
  ELSE LET key == doc[i][1]
           value == doc[i][2]
           base_key == BaseKey(key)
       IN ExpandPass(
            IF /\ IsExpandKey(key) /\ IsList(value)
               /\ base_key \in DOMAIN st.config
               /\ IsList(st.config[base_key])
            THEN LET extended == ListV(st.config[base_key].l \o value.l)
                 IN [st EXCEPT !.config[base_key] = extended,
                               \* list.extend changes the object in place
                               !.dflt = IF base_key \in st.shared
                                        THEN [@ EXCEPT ![base_key] = extended]
                                        ELSE @,
                               !.out = Append(@, Msg("expanded", base_key, Len(value.l)))]
            ELSE st,
            doc, i + 1)

\* the passes in another order: expansion before exclusion
MergeDocumentExpandFirst(st, doc) ==
  ExcludePass(ExpandPass(DirectPass(st, doc, 1), doc, 1), doc, 1)

\* the three passes of load_config over one parsed document
MergeDocument(st, doc) ==
  ExpandPass(ExcludePass(DirectPass(st, doc, 1), doc, 1), doc, 1)

Absent    == [kind |-> "absent", doc |-> <<>>]
Invalid   == [kind |-> "invalid", doc |-> <<>>]
NonObject == [kind |-> "nonobject", doc |-> <<>>]
Doc(d)    == [kind |-> "doc", doc |-> d]

\* a loop over config_paths that gives up at the first file it cannot parse
RECURSIVE ProbePathsStopAtInvalid(_, _, _)
ProbePathsStopAtInvalid(st, candidates, i) ==
  IF i > Len(candidates) THEN st
  ELSE LET c == candidates[i]
           path == config_paths[i]
       IN IF c.kind = "absent" THEN ProbePathsStopAtInvalid(st, candidates, i + 1)
          ELSE IF c.kind = "invalid"
          THEN [st EXCEPT !.out = Append(@, Msg("parse_warning", path, 0))]
          ELSE IF c.kind = "nonobject"
          THEN ProbePathsStopAtInvalid(
                 [st EXCEPT !.out = @ \o <<Msg("loaded", path, 0),
                                           Msg("load_warning", path, 0)>>],
                 candidates, i + 1)
          ELSE MergeDocument([st EXCEPT !.out = Append(@, Msg("loaded", path, 0))], c.doc)

RECURSIVE ProbePaths(_, _, _)
ProbePaths(st, candidates, i) ==
  IF i > Len(candidates) THEN st
  ELSE LET c == candidates[i]
           path == config_paths[i]
       IN IF c.kind = "absent" THEN ProbePaths(st, candidates, i + 1)
          ELSE IF c.kind = "invalid"
          THEN ProbePaths([st EXCEPT !.out = Append(@, Msg("parse_warning", path, 0))],
                          candidates, i + 1)
          ELSE IF c.kind = "nonobject"
          THEN ProbePaths([st EXCEPT !.out = @ \o <<Msg("loaded", path, 0),
                                                    Msg("load_warning", path, 0)>>],
                          candidates, i + 1)
          ELSE LET loaded == [st EXCEPT !.out = Append(@, Msg("loaded", path, 0))]
               IN MergeDocument(loaded, c.doc)

load_config(dflt, candidates) ==
  ProbePaths([config |-> dflt, shared |-> DOMAIN dflt, dflt |-> dflt, out |-> <<>>],
             candidates, 1)

\* ------------------------------------------------- check_prohibited_files
Hit(file, reason) == [file |-> file, reason |-> reason]

\* The inner loop over config["prohibited_patterns"] for one file:
\* "hit" at the first expression that matches, "raise" when re.match meets an
\* expression that does not compile before any matched, else "none".
RECURSIVE MatchProhibitedPattern(_, _, _)
MatchProhibitedPattern(file, patterns, k) ==
  IF k > Len(patterns) THEN "none"
  ELSE IF ~Compile(patterns[k]).ok THEN "raise"
  ELSE IF re_match(patterns[k], file) THEN "hit"
  ELSE MatchProhibitedPattern(file, patterns, k + 1)

\* acc: prohibited_found so far, visited the files the loop reached, raised
\* whether re.error left the function (nothing catches it).
RECURSIVE CheckFilesFrom(_, _, _, _)
CheckFilesFrom(fl, cfg, i, acc) ==
  IF i > Len(fl) THEN acc
  ELSE LET file == fl[i]
           filename == Basename(file)
           seen == [acc EXCEPT !.visited = @ \cup {file}]
       IN IF InList(filename, cfg[K_prohibited_files].l)
          THEN CheckFilesFrom(fl, cfg, i + 1,
                 [seen EXCEPT !.found = Append(@, Hit(file, "File should not be committed"))])
          ELSE LET r == MatchProhibitedPattern(file, cfg[K_prohibited_patterns].l, 1)
               IN IF r = "raise" THEN [seen EXCEPT !.raised = TRUE]
                  ELSE IF r = "hit"
                  THEN CheckFilesFrom(fl, cfg, i + 1,
                         [seen EXCEPT !.found = Append(@, Hit(file, "File matches prohibited pattern"))])
                  ELSE CheckFilesFrom(fl, cfg, i + 1, seen)

check_prohibited_files(fl, cfg) ==
  CheckFilesFrom(fl, cfg, 1, [found |-> <<>>, visited |-> {}, raised |-> FALSE])

\* ---------------------------------------------------------------- scan_file
Finding(line_num, match_value) == [line |-> line_num, value |-> match_value]

\* match[0] if isinstance(match, tuple) else match
MatchValue(m) == IF m.isTuple THEN m.tup[1] ELSE m.str

RECURSIVE FindingsOfMatches(_, _)
FindingsOfMatches(line_num, matches) ==
  IF matches = <<>> THEN <<>>
  ELSE <<Finding(line_num, MatchValue(Head(matches)))>>
         \o FindingsOfMatches(line_num, Tail(matches))

\* The loop over patterns for one line; an expression that does not compile
\* raises out of both loops into scan_file's except clause.
RECURSIVE ScanLine(_, _, _, _, _)
ScanLine(line, line_num, patterns, k, acc) ==
  IF k > Len(patterns) THEN acc
  ELSE IF ~Compile(patterns[k]).ok THEN [acc EXCEPT !.raised = TRUE]
  ELSE ScanLine(line, line_num, patterns, k + 1,
         [acc EXCEPT !.findings =
            @ \o FindingsOfMatches(line_num, re_findall(patterns[k], line))])

RECURSIVE ScanLines(_, _, _, _)
ScanLines(lines, line_num, patterns, acc) ==
  IF line_num > Len(lines) THEN acc
  ELSE LET r == ScanLine(lines[line_num], line_num, patterns, 1, acc)
       IN IF r.raised THEN r
          ELSE ScanLines(lines, line_num + 1, patterns, r)

\* findings: the returned list; raised: the except clause ran and printed
\* "Could not read <filepath>"
scan_file(filepath, patterns) ==
  IF ~Readable(filepath) THEN [findings |-> <<>>, raised |-> TRUE]
  ELSE ScanLines(SplitLines(FileText(filepath), <<>>), 1, patterns,
                 [findings |-> <<>>, raised |-> FALSE])

\* any(f.endswith(ext) for ext in config["valid_extensions"])
HasValidExtension(f, exts) == \E i \in 1..Len(exts) : EndsWith(f, exts[i])

\* a filter that keeps every file
FilterKeepAll(fl, exts) == fl

RECURSIVE FilterByExtension(_, _)
FilterByExtension(fl, exts) ==
  IF fl = <<>> THEN <<>>
  ELSE IF HasValidExtension(Head(fl), exts)
       THEN <<Head(fl)>> \o FilterByExtension(Tail(fl), exts)
       ELSE FilterByExtension(Tail(fl), exts)

\* an enabled test that never sees the flag
IsEnabledAlways(cfg) == TRUE

\* not config["enabled"]
IsEnabled(cfg) == cfg[K_enabled].b

\* ------------------------------------------------------------------ inputs
Key(base, suffix) == base \o suffix

\* override documents: a sequence of (key, value) pairs with distinct keys,
\* in the order of the keys in the JSON object
DocsOver(pairs, n) ==
  UNION {{d \in [1..m -> pairs] :
            \A i, j \in 1..m : d[i][1] = d[j][1] => i = j} : m \in 0..n}

RunPairs ==
  { <<K_enabled, BoolV(FALSE)>>, <<K_enabled, BoolV(TRUE)>>,
    <<K_valid_extensions, ListV(<< <<".py">> >>)>>,
    <<Key(K_valid_extensions, ExcludeSuffix), ListV(<< <<".rb">> >>)>>,
    <<Key(K_valid_extensions, ExpandSuffix), ListV(<< <<".pem">> >>)>>,
    <<K_prohibited_files, ListV(<<>>)>>,
    <<Key(K_prohibited_files, ExcludeSuffix), ListV(<< <<"id_rsa">> >>)>>,
    <<Key(K_prohibited_files, ExpandSuffix), ListV(<< <<"a", ".py">> >>)>>,
    <<K_prohibited_patterns, ListV(<< RE_BAD, RE_PEM >>)>>,
    <<Key(K_prohibited_patterns, ExcludeSuffix), ListV(<< RE_PEM >>)>>,
    <<Key(K_prohibited_patterns, ExpandSuffix), ListV(<< RE_BAD >>)>>,
    <<Key(K_prohibited_patterns, ExpandSuffix), ListV(<< RE_D >>)>>,
    <<K_patterns, ListV(<< RE_BAD, RE_SECRET >>)>>,
    <<K_patterns, ListV(<< RE_SECRET >>)>>,
    <<Key(K_patterns, ExcludeSuffix), ListV(<< RE_CRED >>)>>,
    <<Key(K_patterns, ExcludeSuffix), StrV(RE_SECRET)>>,
    <<Key(K_patterns, ExpandSuffix), ListV(<< RE_BAD >>)>>,
    <<K_allowlist, ObjV(<< F_id_rsa >>)>>,
    <<K_allowlist, ObjV(<< F_a >>)>> }

RunDocs == DocsOver(RunPairs, MaxRunDocKeys)

GlobalDocs ==
  { << <<K_enabled, BoolV(FALSE)>> >>,
    << <<K_valid_extensions, ListV(<< <<".py">> >>)>> >> }

\* what the two config_paths hold when the hook runs
RunCandidates ==
  { <<l, g>> : l \in {Absent, Invalid, NonObject} \cup {Doc(d) : d \in RunDocs},
               g \in {Absent, Invalid} \cup {Doc(d) : d \in GlobalDocs} }

\* for a list key: an element of its default and one that is not
DefaultElem(X) == DefaultConfig[X].l[1]
OtherElem(X) ==
  IF X = K_valid_extensions THEN <<".pem">>
  ELSE IF X = K_prohibited_files THEN <<"a", ".py">>
  ELSE RE_BAD

MergePairs(X) ==
  { <<X, ListV(l)>> : l \in {<<>>, <<OtherElem(X)>>, <<OtherElem(X), DefaultElem(X)>>} }
  \cup { <<Key(X, ExcludeSuffix), ListV(l)>> :
           l \in {<<DefaultElem(X)>>, <<OtherElem(X)>>} }
  \cup { <<Key(X, ExpandSuffix), ListV(l)>> :
           l \in {<<DefaultElem(X)>>, <<OtherElem(X)>>} }
  \cup { <<Key(X, ExcludeSuffix), StrV(DefaultElem(X))>>,
         <<Key(X, ExpandSuffix), StrV(OtherElem(X))>>,
         <<Key(K_enabled, ExpandSuffix), ListV(<<OtherElem(X)>>)>> }

MergeDocs == UNION {DocsOver(MergePairs(X), MaxDocKeys) : X \in ListKeys}

\* git diff --cached --name-only: distinct paths
FileLists ==
  UNION {{fl \in [1..n -> Tracked] :
            \A i, j \in 1..n : fl[i] = fl[j] => i = j} : n \in 0..MaxFiles}

\* ------------------------------------------------------------------- state
VARIABLES
  DEFAULT_CONFIG,  \* the module-level dict
  cfgFiles,        \* what config_paths[1], config_paths[2] hold
  config,          \* load_config's result
  out,             \* diagnostics printed so far
  pc,              \* where the process is
  listed,          \* get_staged_files has run
  files,           \* its result
  visited,         \* files check_prohibited_files examined
  prohibited,      \* its result
  files_to_scan,
  scanned,         \* files scan_file was called on, in order
  findings,        \* findings[i]: what scan_file returned for scanned[i]
  any_findings,
  status,          \* exit status once pc = "done"
  crashed,         \* an exception left main
  endedAt,         \* the stage that ended the run
  calls,           \* calls of load_config in this process
  firstConfig,     \* result of the first call
  dfltBefore       \* DEFAULT_CONFIG when the last call began

vars == <<DEFAULT_CONFIG, cfgFiles, config, out, pc, listed, files, visited,
          prohibited, files_to_scan, scanned, findings, any_findings, status,
          crashed, endedAt, calls, firstConfig, dfltBefore>>

runVars == <<listed, files, visited, prohibited, files_to_scan, scanned,
             findings, any_findings, status, crashed, endedAt>>

InitCommon ==
  /\ DEFAULT_CONFIG = DefaultConfig
  /\ config = DefaultConfig
  /\ out = <<>>
  /\ listed = FALSE
  /\ files = <<>>
  /\ visited = {}
  /\ prohibited = <<>>
  /\ files_to_scan = <<>>
  /\ scanned = <<>>
  /\ findings = <<>>
  /\ any_findings = FALSE
  /\ status = 0
  /\ crashed = FALSE
  /\ endedAt = "running"
  /\ calls = 0
  /\ firstConfig = DefaultConfig
  /\ dfltBefore = DefaultConfig

Init ==
  /\ InitCommon
  /\ cfgFiles \in RunCandidates
  /\ pc = "main"

\* the effect of one call of load_config on the process
CallLoadConfig ==
  LET r == load_config(DEFAULT_CONFIG, cfgFiles) IN
  /\ config' = r.config
  /\ DEFAULT_CONFIG' = r.dflt
  /\ out' = out \o r.out
  /\ calls' = calls + 1
  /\ firstConfig' = IF calls = 0 THEN r.config ELSE firstConfig
  /\ dfltBefore' = DEFAULT_CONFIG

Exit(code, stage) ==
  /\ pc' = "done"
  /\ status' = code
  /\ endedAt' = stage

\* main: config = load_config()
LoadConfig ==
  /\ pc = "main"
  /\ CallLoadConfig
  /\ pc' = "check_enabled"
  /\ UNCHANGED <<cfgFiles, runVars>>

\* main: if not config["enabled"]: sys.exit(0)
CheckEnabled ==
  /\ pc = "check_enabled"
  /\ IF ~IsEnabled(config)
     THEN /\ Exit(0, "disabled")
          /\ out' = Append(out, Msg("disabled", <<>>, 0))
     ELSE /\ pc' = "get_staged_files"
          /\ UNCHANGED <<status, endedAt, out>>
  /\ UNCHANGED <<DEFAULT_CONFIG, cfgFiles, config, listed, files, visited,
                 prohibited, files_to_scan, scanned, findings, any_findings,
                 crashed, calls, firstConfig, dfltBefore>>

\* main: files = get_staged_files(); return when there are none
GetStagedFiles ==
  /\ pc = "get_staged_files"
  /\ \E fl \in FileLists :
       /\ files' = fl
       /\ listed' = TRUE
       /\ IF fl = <<>>
          THEN /\ Exit(0, "no_files")
               /\ out' = Append(out, Msg("no_files", <<>>, 0))
          ELSE /\ pc' = "check_prohibited"
               /\ out' = Append(out, Msg("scanning", <<>>, Len(fl)))
               /\ UNCHANGED <<status, endedAt>>
  /\ UNCHANGED <<DEFAULT_CONFIG, cfgFiles, config, visited, prohibited,
                 files_to_scan, scanned, findings, any_findings, crashed,
                 calls, firstConfig, dfltBefore>>

\* main: prohibited = check_prohibited_files(files, config); sys.exit(1) on
\* any hit.  re.error from the call leaves main: traceback, exit status 1.
CheckProhibited ==
  /\ pc = "check_prohibited"
  /\ LET r == check_prohibited_files(files, config) IN
       /\ visited' = r.visited
       /\ IF r.raised
          THEN /\ Exit(1, "prohibited")
               /\ crashed' = TRUE
               /\ UNCHANGED <<prohibited, out>>
          ELSE IF r.found # <<>>
          THEN /\ Exit(1, "prohibited")
               /\ prohibited' = r.found
               /\ out' = Append(out, Msg("commit_aborted", <<>>, Len(r.found)))
               /\ UNCHANGED crashed
          ELSE /\ pc' = "filter"
               /\ UNCHANGED <<prohibited, out, status, endedAt, crashed>>
  /\ UNCHANGED <<DEFAULT_CONFIG, cfgFiles, config, listed, files,
                 files_to_scan, scanned, findings, any_findings,
                 calls, firstConfig, dfltBefore>>

\* main: files_to_scan = [...]; any_findings = False
FilterExtensions ==
  /\ pc = "filter"
  /\ files_to_scan' = FilterByExtension(files, config[K_valid_extensions].l)
  /\ any_findings' = FALSE
  /\ pc' = "scan"
  /\ UNCHANGED <<DEFAULT_CONFIG, cfgFiles, config, out, listed, files, visited,
                 prohibited, scanned, findings, status, crashed, endedAt,
                 calls, firstConfig, dfltBefore>>

\* a loop over files_to_scan that ends at the first file scan_file could
\* not read
ScanNextStopAtUnreadable ==
  /\ pc = "scan"
  /\ Len(scanned) < Len(files_to_scan)
  /\ LET file == files_to_scan[Len(scanned) + 1]
         r == scan_file(file, config[K_patterns].l)
     IN /\ scanned' = Append(scanned, file)
        /\ findings' = Append(findings, r.findings)
        /\ any_findings' = (any_findings \/ r.findings # <<>>)
        /\ files_to_scan' = IF r.raised
                            THEN SubSeq(files_to_scan, 1, Len(scanned) + 1)
                            ELSE files_to_scan
        /\ out' = out
                  \o (IF r.raised THEN <<Msg("could_not_read", file, 0)>> ELSE <<>>)
                  \o (IF r.findings # <<>>
                      THEN <<Msg("secrets_found", file, Len(r.findings))>> ELSE <<>>)
  /\ UNCHANGED <<DEFAULT_CONFIG, cfgFiles, config, pc, listed, files, visited,
                 prohibited, status, crashed, endedAt,
                 calls, firstConfig, dfltBefore>>

\* main: one iteration of "for file in files_to_scan"
ScanNext ==
  /\ pc = "scan"
  /\ Len(scanned) < Len(files_to_scan)
  /\ LET file == files_to_scan[Len(scanned) + 1]
         r == scan_file(file, config[K_patterns].l)
     IN /\ scanned' = Append(scanned, file)
        /\ findings' = Append(findings, r.findings)
        /\ any_findings' = (any_findings \/ r.findings # <<>>)
        /\ out' = out
                  \o (IF r.raised THEN <<Msg("could_not_read", file, 0)>> ELSE <<>>)
                  \o (IF r.findings # <<>>
                      THEN <<Msg("secrets_found", file, Len(r.findings))>> ELSE <<>>)
  /\ UNCHANGED <<DEFAULT_CONFIG, cfgFiles, config, pc, listed, files, visited,
                 prohibited, files_to_scan, status, crashed, endedAt,
                 calls, firstConfig, dfltBefore>>

\* main: after the loop, sys.exit(1) if any_findings
Finish ==
  /\ pc = "scan"
  /\ Len(scanned) = Len(files_to_scan)
  /\ Exit(IF any_findings THEN 1 ELSE 0, "scan")
  /\ out' = Append(out, Msg(IF any_findings THEN "commit_aborted" ELSE "no_secrets",
                            <<>>, 0))
  /\ UNCHANGED <<DEFAULT_CONFIG, cfgFiles, config, listed, files, visited,
                 prohibited, files_to_scan, scanned, findings, any_findings,
                 crashed, calls, firstConfig, dfltBefore>>

Next ==
  \/ LoadConfig
  \/ CheckEnabled
  \/ GetStagedFiles
  \/ CheckProhibited
  \/ FilterExtensions
  \/ ScanNext
  \/ Finish

Spec == Init /\ [][Next]_vars

\* ---------------------------------------------- load_config called again
InitRepeat ==
  /\ InitCommon
  /\ cfgFiles \in {<<Doc(d), Absent>> : d \in MergeDocs}
  /\ pc = "resolve"

\* one more call of load_config in the same process, same files on disk
Resolve ==
  /\ pc = "resolve"
  /\ calls < MaxCalls
  /\ CallLoadConfig
  /\ UNCHANGED <<cfgFiles, pc, runVars>>

NextRepeat == Resolve

SpecRepeat == InitRepeat /\ [][NextRepeat]_vars

\* ============================================================== properties
\* helpers of the statements below, written without the operators of the model
LastSegment(p) ==
  LET slashes == {i \in 1..Len(p) : p[i] = "/"} IN
  IF slashes = {} THEN p
  ELSE SubSeq(p, (CHOOSE i \in slashes : \A j \in slashes : j <= i) + 1, Len(p))

ProhibitedByName(f) ==
  \E k \in 1..Len(config[K_prohibited_files].l) :
     config[K_prohibited_files].l[k] = LastSegment(f)

ProhibitedByPattern(f) ==
  \E k \in 1..Len(config[K_prohibited_patterns].l) :
     /\ Compile(config[K_prohibited_patterns].l[k]).ok
     /\ re_match(config[K_prohibited_patterns].l[k], f)

Eligible(f) ==
  \E k \in 1..Len(config[K_valid_extensions].l) :
     EndsWith(f, config[K_valid_extensions].l[k])

InFiles(f) == \E i \in 1..Len(files) : files[i] = f

HitFor(f) == \E i \in 1..Len(prohibited) : prohibited[i].file = f

FindingFor(f) ==
  \E j \in 1..Len(scanned) : scanned[j] = f /\ findings[j] # <<>>

AnyFinding == \E j \in 1..Len(findings) : findings[j] # <<>>

Printed(m, path) == \E i \in 1..Len(out) : out[i].msg = m /\ out[i].path = path

\* the first config path that exists, 0 when none does
Discovered ==
  IF cfgFiles[1].kind # "absent" THEN 1
  ELSE IF cfgFiles[2].kind # "absent" THEN 2 ELSE 0

DiscoveredInvalid == Discovered # 0 /\ cfgFiles[Discovered].kind = "invalid"

ConfigAbsentOrParsed == Discovered = 0 \/ cfgFiles[Discovered].kind = "doc"

HasKey(doc, k) == \E i \in 1..Len(doc) : doc[i][1] = k
ValueOf(doc, k) == doc[CHOOSE i \in 1..Len(doc) : doc[i][1] = k][2]

\* the document that supplied the overrides, <<>> when none did
UsedDoc ==
  IF cfgFiles[1].kind = "doc" THEN cfgFiles[1].doc
  ELSE IF cfgFiles[2].kind = "doc" THEN cfgFiles[2].doc
  ELSE <<>>

AllowlistFiles ==
  IF HasKey(UsedDoc, K_allowlist)
  THEN {ValueOf(UsedDoc, K_allowlist).l[i] : i \in 1..Len(ValueOf(UsedDoc, K_allowlist).l)}
  ELSE {}

WellFormed(patterns) == SelectSeq(patterns, LAMBDA p : Compile(p).ok)

\* C1: an enabled run whose configuration is absent or parses ends with a
\* non-zero exit status exactly when a prohibited-file hit or a content
\* finding was produced; in every other case it ends with status 0.
C1_ExitStatusIffFlagged ==
  (pc = "done" /\ config[K_enabled].b /\ ConfigAbsentOrParsed)
    => ((status # 0) <=> (prohibited # <<>> \/ AnyFinding))

\* C2: when the file list holds a file whose basename is in prohibited_files
\* or whose path matches a prohibited pattern, the run ends at the
\* prohibited-file stage with a failing status and scan_file is never called.
C2_ProhibitedStopsBeforeScan ==
  (\E i \in 1..Len(files) :
      ProhibitedByName(files[i]) \/ ProhibitedByPattern(files[i]))
    => /\ scanned = <<>>
       /\ pc \notin {"filter", "scan"}
       /\ pc = "done" => (status # 0 /\ endedAt = "prohibited")

C2_Witness ==
  /\ pc = "done"
  /\ endedAt = "prohibited"
  /\ prohibited # <<>>
  /\ InFiles(F_a)
  /\ Eligible(F_a)
  /\ ~ProhibitedByName(F_a) /\ ~ProhibitedByPattern(F_a)
  /\ \E i \in 1..Len(files) : ProhibitedByName(files[i])
  /\ scanned = <<>>

C4_MergeIdempotent ==
  calls >= 1 => (config = firstConfig /\ DEFAULT_CONFIG = DefaultConfig)

\* C5: for a file listed in allowlist.files of the configuration, no
\* prohibited-file hit and no content finding is ever produced.
C5_AllowlistedFilesNeverFlagged ==
  \A f \in AllowlistFiles : ~HitFor(f) /\ ~FindingFor(f)

\* C6: with enabled = false the run passes with status 0 and produces no
\* hits and no findings; the file lister, check_prohibited_files and
\* scan_file are not called.
C6_DisabledRunPasses ==
  (pc \notin {"main", "check_enabled"} /\ ~config[K_enabled].b)
    => /\ pc = "done" /\ status = 0 /\ endedAt = "disabled"
       /\ ~listed /\ files = <<>>
       /\ visited = {} /\ prohibited = <<>>
       /\ scanned = <<>> /\ findings = <<>>
       /\ ~crashed

C6_Witness ==
  /\ pc = "done"
  /\ ~config[K_enabled].b
  /\ cfgFiles[1].kind = "doc"
  /\ endedAt = "disabled"

\* C7: for a list-valued key X the effective list is the direct value of X
\* if the document gives one, else the default (DEFAULT_CONFIG[X] as the
\* call finds it), with the elements of X_exclude removed and then the
\* elements of X_expand appended, whatever the order of the keys in the
\* document; an element in both X_exclude and X_expand is in the result.
ExpectedList(doc, X) ==
  LET base == IF HasKey(doc, X) THEN ValueOf(doc, X).l ELSE dfltBefore[X].l
      ex == IF HasKey(doc, Key(X, ExcludeSuffix))
               /\ ValueOf(doc, Key(X, ExcludeSuffix)).t = "list"
            THEN ValueOf(doc, Key(X, ExcludeSuffix)).l ELSE <<>>
      add == IF HasKey(doc, Key(X, ExpandSuffix))
                /\ ValueOf(doc, Key(X, ExpandSuffix)).t = "list"
             THEN ValueOf(doc, Key(X, ExpandSuffix)).l ELSE <<>>
  IN SelectSeq(base, LAMBDA e : \A i \in 1..Len(ex) : ex[i] # e) \o add

C8_UnreadableFileSkipped ==
  (/\ pc = "done" /\ endedAt = "scan"
   /\ \E i \in 1..Len(files) : Eligible(files[i]) /\ ~Readable(files[i]))
    => \A i \in 1..Len(files) :
         Eligible(files[i]) =>
           \E j \in 1..Len(scanned) :
              /\ scanned[j] = files[i]
              /\ IF Readable(files[i])
                 THEN findings[j] = scan_file(files[i], config[K_patterns].l).findings
                 ELSE findings[j] = <<>> /\ Printed("could_not_read", files[i])

C8_Witness ==
  /\ pc = "done" /\ endedAt = "scan"
  /\ files = <<F_b, F_a>>
  /\ scanned = <<F_b, F_a>>
  /\ findings[1] = <<>>
  /\ Len(findings[2]) = 3
  /\ Printed("could_not_read", F_b)
  /\ status = 1

\* C9: a malformed regular expression in a pattern list never aborts the
\* run; only that pattern is skipped, so the hits and findings are those of
\* the well-formed patterns alone.
C9_BadPatternSkipped ==
  /\ ~crashed
  /\ (pc \in {"filter", "scan"} \/ (pc = "done" /\ endedAt \in {"prohibited", "scan"}))
       => prohibited =
            check_prohibited_files(files,
              [config EXCEPT ![K_prohibited_patterns] =
                 ListV(WellFormed(config[K_prohibited_patterns].l))]).found
  /\ \A j \in 1..Len(scanned) :
       Readable(scanned[j])
         => findings[j] = scan_file(scanned[j], WellFormed(config[K_patterns].l)).findings

\* C10: a file whose name ends with none of the effective valid_extensions
\* is never handed to scan_file and has no findings, and the prohibited-file
\* check has examined it before the filter.
C10_ExtensionFilterGatesScan ==
  /\ \A j \in 1..Len(scanned) : Eligible(scanned[j]) /\ InFiles(scanned[j])
  /\ (pc \in {"filter", "scan"} \/ (pc = "done" /\ endedAt = "scan"))
       => \A i \in 1..Len(files) : files[i] \in visited
  /\ pc = "done" /\ endedAt = "scan"
       => \A i \in 1..Len(files) :
            ~Eligible(files[i]) => ~FindingFor(files[i])

C10_Witness ==
  /\ pc = "done" /\ endedAt = "scan"
  /\ InFiles(F_c)
  /\ ~Eligible(F_c)
  /\ F_c \in visited
  /\ \A j \in 1..Len(scanned) : scanned[j] # F_c
  /\ scan_file(F_c, config[K_patterns].l).findings # <<>>
  /\ status = 0

====
